---- MODULE Spec2Model ----
(***************************************************************************)
(* SiteOps: the pipeline Collector, Writer, Editor, Deployer.               *)
(*                                                                         *)
(* Spec is phase 4, the Deployer (scripts/deployer.py).  Deployer.run      *)
(* walks the verdicts of the editor, and for each one either skips it, or  *)
(* checks the freshness of the published artifact against the collector's  *)
(* snapshot and then deploys the draft by pull request or by a direct      *)
(* write to the target branch.  The target repository is shared: another   *)
(* actor may write the artifact at any moment of the run.                  *)
(*                                                                         *)
(* Pipeline is one run of the phases in sequence: the Collector            *)
(* (scripts/collector.py) scores each project, the Writer drafts the       *)
(* projects rated new or update, the Editor reviews the drafts it finds,   *)
(* the Deployer chooses a path for each verdict, and the Observer logs     *)
(* the run.                                                                *)
(*                                                                         *)
(* Editor is the review loop of EditorAgent.run (scripts/editor.py) with   *)
(* its deterministic checks; Inject is the injection of the manual         *)
(* sections of a published page into a draft (scripts/writer.py);          *)
(* Observer is a series of runs of Observer.run (scripts/observer.py) on   *)
(* one dashboard.                                                          *)
(***************************************************************************)
EXTENDS Integers, Sequences, FiniteSets, TLC

\* ------------------------------------------------------------------ bounds
\* Number of verdicts in editor_results.json.
NumVerdicts == 2
\* Writes of another actor to one artifact while its draft is deployed.
MaxExtWrites == 1
\* Number of projects the collector discovers.
NumProjects == 2
\* Length of the list get_commits returns for a project.
MaxCommits == 2
\* Regions (text, manual sections) of a published artifact or of a draft.
MaxRegions == 2
\* Runs of the observer on one dashboard.json.
MaxRuns == 22

\* ------------------------------------------------------- program constants
\* workflow.get("high_risk_threshold", 30)
HighRiskThreshold == 30
\* dashboard["runs"] = dashboard["runs"][:20]
KeepRuns == 20

\* ------------------------------------------------------------ value spaces
\* Python's None, and a key that is absent from a dict.
None == "<None>"
Missing == "<missing>"
\* The remote answers 404 for the artifact.
Absent == "<404>"
\* The text of drafts/<slug>.html.
Draft == "draft"

\* What the artifact of a slug holds on the target branch when the deployer
\* comes to it: nothing, or some content.
InitialRemotes == {Absent, "", "h1", "h2"}
\* What another actor leaves behind: new content, or nothing (it deletes
\* the file).
ExternalValues == {"h2", Absent}
\* Values of context entry["current_html"]: the index's content, None when
\* the content fetch failed or the project is new, or no such key.
SnapshotContents == {None, "", "h1"}

\* Review statuses: the four of the editor, no "status" key, and a status
\* outside the enumeration (json.loads passes the reviewer's word through).
Statuses == {"APPROVE", "FLAGGED", "REJECT", "ERROR", "OTHER", Missing}

Num(n) == [kind |-> "num", val |-> n]
\* verdict["change_percentage"]: a number, no such key, or a JSON value
\* that is not a number (null, a string).
ChangePcts == {Num(HighRiskThreshold), Num(HighRiskThreshold + 1),
               [kind |-> "missing", val |-> 0], [kind |-> "nonnum", val |-> 0]}

Reasons == {"r", Missing}

\* The verdicts of editor_results.json.  run reads "reason" only when it
\* skips the verdict, so the key is left out only there.
Verdicts ==
  {v \in [status : Statuses, reason : Reasons, change_percentage : ChangePcts] :
     v.reason = Missing => v.status \in {"REJECT", "ERROR", Missing}}

\* What _check_freshness finds for the slug in _data/context.json.
NoContext == [kind |-> "no_context", exists |-> FALSE, current_html |-> None]
NoProject == [kind |-> "no_project", exists |-> FALSE, current_html |-> None]
Entry(e, h) == [kind |-> "entry", exists |-> e, current_html |-> h]
Projects == {NoContext, NoProject, Entry(FALSE, None)}
              \cup {Entry(TRUE, h) : h \in SnapshotContents}

\* hashlib.sha1(text.encode()).hexdigest() and the git blob sha of a file:
\* collision-free digests, each in its own value space.
NoSha == <<>>
Sha1(text) == <<"sha1", text>>
BlobSha(text) == <<"blob", text>>

\* Outcomes of target_repo.get_contents in _check_freshness: the remote
\* answers (the file or 404), a GithubException of another status, or an
\* exception that is not a GithubException (transport failure, a file too
\* large to decode).
FetchOutcomes == {"answer", "github_error", "other_error"}

\* Remote calls of the deployer.  "target" is a call on the target branch,
\* "pr" one on the branch of the pull request.
ReadOps == {"get_contents:target", "get_contents:pr", "get_git_ref"}
TargetWrites == {"update_file:target", "create_file:target"}
MutationOps == TargetWrites \cup
               {"create_git_ref", "delete_ref", "update_file:pr",
                "create_file:pr", "create_pull", "add_to_labels"}

VARIABLES
  mode,                  \* self.mode
  force_pr_on_high_risk, \* self.force_pr_on_high_risk
  dry_run,               \* self.dry_run
  has_editor_results,    \* _data/editor_results.json exists and is not empty
  pc,                    \* position in Deployer.run
  i,                     \* index of the verdict in hand (0 before the first)
  verdict,               \* the verdict in hand
  project,               \* the context entry _check_freshness found for it
  freshness,             \* the dict _check_freshness returned
  should_pr,             \* should_pr of run
  existing,              \* existing.sha read by _direct_push
  remote,                \* the artifact of the slug in hand on the target branch
  remoteAtCheck,         \* history: remote when _check_freshness returned
  fetched,               \* history: how get_contents of _check_freshness ended
  ops,                   \* history: remote calls made for the verdict in hand
  extWrites,             \* writes of other actors during this verdict
  pushed, prs, skipped, errors,  \* results of run
  saved                  \* _data/deployer_results.json was written

VARIABLES
  phase,                 \* the phase of the pipeline that runs next
  force_update,          \* Collector: self.force_update
  scoring,               \* Collector: self.config["scoring"]
  facts,                 \* _collect_project: bio_state and what was fetched
  significance,          \* _collect_project: what _calculate_significance returned
  project_data,          \* the entry _collect_project returned
  context,               \* context["projects"], as far as later phases read it
  failed,                \* history: slugs for which an upstream fetch failed
  marked,                \* history: slugs whose page carries the lock marker
  responses,             \* what the model and the target answer for a slug
  disk,                  \* slugs with a file drafts/<slug>.html
  drafts,                \* writer_results["drafts"]
  verdicts,              \* editor_results["verdicts"]
  choices                \* what Deployer.run did with each verdict

deployer == <<mode, force_pr_on_high_risk, dry_run, has_editor_results, pc, i,
              verdict, project, freshness, should_pr, existing, remote,
              remoteAtCheck, fetched, ops, extWrites, pushed, prs, skipped,
              errors, saved>>
upstream == <<phase, force_update, scoring, facts, significance, project_data,
              context, failed, marked, responses, disk, drafts, verdicts,
              choices>>

VARIABLES
  reviews_done,          \* EditorAgent.run: drafts its loop has gone through
  review,                \* the draft in hand and what the reviewer answers
  outcome,               \* how the pass of the loop for that draft ended
  manual_sections,       \* project["manual_sections"]
  original,              \* the draft as the model generated it
  draft_html,            \* draft of _inject_manual_sections
  injected,              \* sections the loop of _inject_manual_sections did
  inject_raised,         \* re.sub raised re.error
  dashboard,             \* dashboard.json
  run_log                \* run_log of the last Observer.run

editing == <<reviews_done, review, outcome>>
injecting == <<manual_sections, original, draft_html, injected, inject_raised>>
observing == <<dashboard, run_log>>
aside == <<editing, injecting, observing>>
vars == <<deployer, upstream, aside>>

config == <<mode, force_pr_on_high_risk, dry_run, has_editor_results>>
results == <<pushed, prs, skipped, errors>>

\* result = {"stale": False, "expected_sha": None, "current_sha": None}
FreshResult == [stale |-> FALSE, expected_sha |-> NoSha, current_sha |-> NoSha]

\* ------------------------------------------- value spaces of phases 1 to 3
\* The type get_commits gives a commit: feat, refactor, fix, or one of the
\* types the scorer adds nothing for (docs, style, chore, other, ...).
CommitTypes == {"feat", "refactor", "fix", "chore"}
CommitLists == UNION {[1..n -> CommitTypes] : n \in 0..MaxCommits}
\* get_releases: no release in the window, or one.
ReleaseLists == {<<>>, <<"v1">>}
\* readme["content"]
ReadmeContents == {"", "readme"}

\* config["scoring"] of settings.yaml.
Scoring(rel, rdm, feat, refac, fix, none, thr) ==
  [new_release |-> rel, readme_changed |-> rdm, feat_commit |-> feat,
   refactor_commit |-> refac, fix_commit |-> fix, no_commits |-> none,
   update_threshold |-> thr]
\* The weights the docstring of _calculate_significance lists, under two
\* thresholds, and a configuration whose weights all differ.
Scorings == {Scoring(100, 40, 30, 30, 15, -999, 50),
             Scoring(100, 40, 30, 30, 15, -999, 131),
             Scoring(100, 40, 30, 20, 15, -999, 50)}

\* bio_index.get(slug, ...): no page for the slug, a page, a locked page,
\* and a page with the lock marker whose content get_file_content could not
\* fetch when the index was built (content None, locked False).
BioStates == {"absent", "page", "locked", "lock_unread"}
BioExists(bio) == bio # "absent"
BioLocked(bio) == bio = "locked"
\* The published page carries the lock marker.
BioMarked(bio) == bio \in {"locked", "lock_unread"}

\* How the fetches of _collect_project end: all answer; the README request
\* gets an HTTP error; one of them raises.  "skipped": none was made.
FetchResults == {"ok", "readme_http_error", "error"}

NoFacts ==
  [bio |-> "absent", fetch |-> "skipped", commits |-> <<>>, releases |-> <<>>,
   readme |-> ""]
\* What one call of _collect_project can meet.  What it never reads (the
\* fetches for a locked page, the answers after a fetch raised) is left out.
Facts ==
  {[NoFacts EXCEPT !.bio = "locked"]}
  \cup {[NoFacts EXCEPT !.bio = b, !.fetch = "error"] :
          b \in BioStates \ {"locked"}}
  \cup {[bio |-> b, fetch |-> "ok", commits |-> c, releases |-> r, readme |-> m] :
          b \in BioStates \ {"locked"}, c \in CommitLists, r \in ReleaseLists,
          m \in ReadmeContents}
  \cup {[bio |-> b, fetch |-> "readme_http_error", commits |-> c, releases |-> r,
         readme |-> ""] :
          b \in BioStates \ {"locked"}, c \in CommitLists, r \in ReleaseLists}

\* _calculate_significance was not called.
NoSignificance ==
  [change_score |-> 0, status |-> "<none>", change_reason |-> "<none>"]
\* No entry yet.
NoEntry ==
  [slug |-> 0, exists |-> FALSE, locked |-> FALSE, status |-> "<none>",
   change_score |-> 0, change_reason |-> "<none>"]

\* No draft in hand in the editor.
NoReview ==
  [on_disk |-> FALSE, answer |-> "none", status |-> Missing,
   forbidden |-> FALSE, valid_html |-> TRUE, missing_section |-> FALSE]
NoOutcome == [ended |-> "none", status |-> Missing, appended |-> 0]

\* dashboard.json as _update_dashboard initialises it (lines 287-297).
NewDashboard ==
  [total_runs |-> 0, successful_runs |-> 0, failed_runs |-> 0,
   total_projects_updated |-> 0, total_prs_created |-> 0,
   total_direct_pushes |-> 0, runs |-> <<>>]
NoRunLog == [results |-> FALSE, pushed |-> 0, prs |-> 0, errors |-> 0,
             success |-> FALSE]

\* The editor's loop, the injection of manual sections and the observer
\* taken apart from the run that is modelled.
AsideIdle ==
  /\ reviews_done = 0
  /\ review = NoReview
  /\ outcome = NoOutcome
  /\ manual_sections = <<>>
  /\ original = <<>>
  /\ draft_html = <<>>
  /\ injected = 0
  /\ inject_raised = FALSE
  /\ dashboard = NewDashboard
  /\ run_log = NoRunLog

\* The deployer taken by itself: phases 1 to 3 have run, and what they left
\* reaches the deployer as editor_results.json and context.json, which
\* NextVerdict and FreshnessAndDecide draw.
UpstreamOver ==
  /\ phase = "deployer"
  /\ force_update = FALSE
  /\ scoring = Scoring(100, 40, 30, 30, 15, -999, 50)
  /\ facts = NoFacts
  /\ significance = NoSignificance
  /\ project_data = NoEntry
  /\ context = <<>>
  /\ failed = {}
  /\ marked = {}
  /\ responses = <<>>
  /\ disk = {}
  /\ drafts = <<>>
  /\ verdicts = <<>>
  /\ choices = <<>>

Init ==
  /\ mode \in {"auto", "manual"}
  /\ force_pr_on_high_risk \in BOOLEAN
  /\ dry_run \in BOOLEAN
  /\ has_editor_results \in BOOLEAN
  /\ pc = "start"
  /\ i = 0
  /\ verdict = [status |-> Missing, reason |-> Missing,
                change_percentage |-> [kind |-> "missing", val |-> 0]]
  /\ project = NoContext
  /\ freshness = FreshResult
  /\ should_pr = FALSE
  /\ existing = NoSha
  /\ remote = Absent
  /\ remoteAtCheck = Absent
  /\ fetched = "none"
  /\ ops = {}
  /\ extWrites = 0
  /\ pushed = <<>> /\ prs = <<>> /\ skipped = <<>> /\ errors = <<>>
  /\ saved = FALSE
  /\ UpstreamOver
  /\ AsideIdle

\* ------------------------------------------------------------ Deployer.run
\* editor_results = self._load_editor_results(); if not editor_results: return
RunStart ==
  /\ pc = "start"
  /\ pc' = IF has_editor_results THEN "loop" ELSE "done"
  /\ UNCHANGED <<aside, upstream, config, i, verdict, project, freshness, should_pr, existing,
                 remote, remoteAtCheck, fetched, ops, extWrites, results, saved>>

\* The locals of an iteration that has ended are dead until the next one
\* assigns them: they go back to their initial values.
EndIteration ==
  /\ pc' = "loop"
  /\ project' = NoContext
  /\ freshness' = FreshResult
  /\ should_pr' = FALSE
  /\ existing' = NoSha
  /\ remoteAtCheck' = Absent
  /\ fetched' = "none"
  /\ extWrites' = 0

\* verdict["status"] read with a default that the skip test does not know.
StatusOf_DefaultUnknown(v) == IF v.status = Missing THEN "UNKNOWN" ELSE v.status

\* status = verdict.get("status", "ERROR")
StatusOf(v) == IF v.status = Missing THEN "ERROR" ELSE v.status

\* verdict.get("reason", "Rejected by Editor")
SkipReason(v) == IF v.reason = Missing THEN "Rejected by Editor" ELSE v.reason

\* results["pushed"].append({"slug": slug})
RecordPushed(n) ==
  /\ pushed' = Append(pushed, [slug |-> n])
  /\ UNCHANGED <<prs, skipped, errors>>

\* results["prs"].append({"slug": slug, "url": pr_url,
\*     "reason": "manual mode" if self.mode == "manual" else status})
RecordPr(n, v) ==
  /\ prs' = Append(prs, [slug |-> n,
                         reason |-> IF mode = "manual" THEN "manual mode" ELSE StatusOf(v)])
  /\ UNCHANGED <<pushed, skipped, errors>>

\* except Exception as e: results["errors"].append({"slug": slug, "error": str(e)})
RecordError(n, e) ==
  /\ errors' = Append(errors, [slug |-> n, error |-> e])
  /\ UNCHANGED <<pushed, prs, skipped>>

\* The head of the for loop up to the freshness check: the next verdict is
\* read; a REJECT or ERROR one is skipped, one whose draft file is missing is
\* an error, any other goes on to the freshness check.
NextVerdict ==
  /\ pc = "loop"
  /\ i < NumVerdicts
  /\ i' = i + 1
  /\ ops' = {}
  /\ \E v \in Verdicts, draft_exists \in BOOLEAN :
       /\ verdict' = v
       /\ IF StatusOf(v) \in {"REJECT", "ERROR"}
            THEN /\ skipped' = Append(skipped, [slug |-> i + 1, reason |-> SkipReason(v)])
                 /\ UNCHANGED <<pushed, prs, errors, pc, remote>>
            ELSE IF ~draft_exists
              THEN /\ RecordError(i + 1, "Draft not found")
                   /\ UNCHANGED <<pc, remote>>
              ELSE /\ pc' = "fresh"
                   /\ remote' \in InitialRemotes
                   /\ UNCHANGED results
  /\ UNCHANGED <<aside, upstream, config, project, freshness, should_pr, existing,
                 remoteAtCheck, fetched, extWrites, saved>>

\* self._save_results(results); return results
SaveResults ==
  /\ pc = "loop"
  /\ i = NumVerdicts
  /\ saved' = TRUE
  /\ pc' = "done"
  /\ UNCHANGED <<aside, upstream, config, i, verdict, project, freshness, should_pr, existing,
                 remote, remoteAtCheck, fetched, ops, extWrites, results>>

\* -------------------------------------------------------- _check_freshness
\* Python truthiness of an optional string.
Truthy(s) == s \notin {None, Missing, ""}

\* if project.get("current_html"): expected_sha = sha1(current_html)
ExpectedSha(p) ==
  IF Truthy(p.current_html) THEN Sha1(p.current_html) ELSE NoSha

\* if result["expected_sha"] and current_hash != result["expected_sha"]
HashesDiffer(expected, current_hash) ==
  expected # NoSha /\ current_hash # expected

\* The test of line 183 without its "exists" half.
Fetches_IgnoresExists(p) == p.kind = "entry"

\* not (not project or not project.get("exists", False)): the remote is asked
Fetches(p) == p.kind = "entry" /\ p.exists

\* _check_freshness with a 404 handler that does not flag the deletion.
CheckFreshness_DeleteNotStale(p, fo, rem) ==
  IF ~Fetches(p) THEN FreshResult
  ELSE IF fo = "answer" /\ rem # Absent
    THEN [stale |-> HashesDiffer(ExpectedSha(p), Sha1(rem)),
          expected_sha |-> ExpectedSha(p),
          current_sha |-> BlobSha(rem)]
  ELSE [stale |-> FALSE, expected_sha |-> ExpectedSha(p), current_sha |-> NoSha]

\* The dict _check_freshness returns for context entry p when get_contents
\* ends as fo and the artifact holds rem (only when it returns).
CheckFreshness(p, fo, rem) ==
  IF ~Fetches(p) THEN FreshResult
  ELSE IF fo = "answer" /\ rem # Absent
    THEN [stale |-> HashesDiffer(ExpectedSha(p), Sha1(rem)),
          expected_sha |-> ExpectedSha(p),
          current_sha |-> BlobSha(rem)]
  ELSE IF fo = "answer"
    THEN [stale |-> p.exists, expected_sha |-> ExpectedSha(p), current_sha |-> NoSha]
  ELSE [stale |-> FALSE, expected_sha |-> ExpectedSha(p), current_sha |-> NoSha]

\* _check_freshness raises: only `except GithubException` guards the fetch.
CheckFreshnessRaises(p, fo) == Fetches(p) /\ fo = "other_error"

\* -------------------------------------------------------- _should_create_pr
\* verdict.get("change_percentage", 0)
ChangePct(v) ==
  IF v.change_percentage.kind = "missing" THEN Num(0) ELSE v.change_percentage

\* _should_create_pr without the FLAGGED test of line 222.
ShouldCreatePr_NoFlagged(status, v) ==
  IF mode = "manual" THEN TRUE
  ELSE IF force_pr_on_high_risk /\ ChangePct(v).val > HighRiskThreshold THEN TRUE
  ELSE FALSE

\* _should_create_pr comparing with >= at line 228.
ShouldCreatePr_AtLeast(status, v) ==
  IF mode = "manual" THEN TRUE
  ELSE IF status = "FLAGGED" THEN TRUE
  ELSE IF force_pr_on_high_risk /\ ChangePct(v).val >= HighRiskThreshold THEN TRUE
  ELSE FALSE

ShouldCreatePr(status, v) ==
  IF mode = "manual" THEN TRUE
  ELSE IF status = "FLAGGED" THEN TRUE
  ELSE IF force_pr_on_high_risk /\ ChangePct(v).val > HighRiskThreshold THEN TRUE
  ELSE FALSE

\* change_pct > self.high_risk_threshold raises TypeError on a non-number
ShouldCreatePrRaises(status, v) ==
  /\ mode # "manual"
  /\ status # "FLAGGED"
  /\ force_pr_on_high_risk
  /\ ChangePct(v).kind = "nonnum"

\* How the fetch of _check_freshness ended for entry p: not made, the file,
\* 404, or an exception.
Fetched(p, fo, rem) ==
  IF ~Fetches(p) THEN "none"
  ELSE IF fo # "answer" THEN fo
  ELSE IF rem = Absent THEN "404" ELSE "file"

\* The choice of the path without the override of line 107.
ShouldPr_IgnoresStale(stale, status, v) == ShouldCreatePr(status, v)

\* Lines 102-111 of run: a stale artifact forces the pull request, otherwise
\* _should_create_pr decides.
ShouldPr(stale, status, v) ==
  IF stale THEN TRUE ELSE ShouldCreatePr(status, v)

\* Lines 100-111 of run: the freshness check and the choice of the path.
\* Neither call is inside run's try block: an exception ends the run.  (The
\* "_conflict_detected" mark of line 108 is read nowhere and is left out.)
FreshnessAndDecide ==
  /\ pc = "fresh"
  /\ \E p \in Projects, fo \in FetchOutcomes :
       LET fr == CheckFreshness(p, fo, remote) IN
       /\ project' = p
       /\ ops' = IF Fetches(p) THEN ops \cup {"get_contents:target"} ELSE ops
       /\ fetched' = Fetched(p, fo, remote)
       /\ remoteAtCheck' = remote
       /\ IF CheckFreshnessRaises(p, fo)
            THEN /\ pc' = "aborted"
                 /\ UNCHANGED <<freshness, should_pr>>
            ELSE /\ freshness' = fr
                 /\ IF ~fr.stale /\ ShouldCreatePrRaises(StatusOf(verdict), verdict)
                      THEN /\ pc' = "aborted"
                           /\ UNCHANGED should_pr
                      ELSE /\ should_pr' = ShouldPr(fr.stale, StatusOf(verdict), verdict)
                           /\ pc' = "deploy"
  /\ UNCHANGED <<aside, upstream, config, i, verdict, existing, remote, extWrites, results, saved>>

\* ---------------------------------------------------- _create_pull_request
\* The remote calls of _create_pull_request up to the branch being there:
\* get_git_ref, create_git_ref, and on 422 delete and create again.
PrBranchReady == {{"get_git_ref", "create_git_ref"},
                  {"get_git_ref", "create_git_ref", "delete_ref"}}

\* The calls that put the file on the branch of the pull request: the file
\* is found and updated, or get_contents (or update_file) answers 404 and it
\* is created.
PrFileWrites == {{"update_file:pr"}, {"create_file:pr"},
                 {"update_file:pr", "create_file:pr"}}

\* The ways through _create_pull_request: the calls made, and whether it
\* returned the pull request's url or raised.  A failure of add_to_labels is
\* swallowed.
PrPaths ==
  {[calls |-> {"get_git_ref"}, ok |-> FALSE]}
  \cup {[calls |-> b, ok |-> FALSE] : b \in PrBranchReady}
  \cup {[calls |-> b \cup {"get_contents:pr"}, ok |-> FALSE] : b \in PrBranchReady}
  \cup {[calls |-> b \cup {"get_contents:pr"} \cup w, ok |-> FALSE] :
          b \in PrBranchReady, w \in PrFileWrites}
  \cup {[calls |-> b \cup {"get_contents:pr", "create_pull"} \cup w, ok |-> FALSE] :
          b \in PrBranchReady, w \in PrFileWrites}
  \cup {[calls |-> b \cup {"get_contents:pr", "create_pull", "add_to_labels"} \cup w,
         ok |-> TRUE] :
          b \in PrBranchReady, w \in PrFileWrites}

\* _create_pull_request without its `if self.dry_run: return` (lines 236-237).
CreatePullRequest_IgnoresDryRun ==
  /\ pc = "deploy"
  /\ should_pr
  /\ \E path \in PrPaths :
       /\ ops' = ops \cup path.calls
       /\ IF path.ok THEN RecordPr(i, verdict)
                     ELSE RecordError(i, "GithubException")
  /\ EndIteration
  /\ UNCHANGED <<aside, upstream, config, i, verdict, remote, saved>>

\* run's `if should_pr:` branch with its except clause.
CreatePullRequest ==
  /\ pc = "deploy"
  /\ should_pr
  /\ IF dry_run
       THEN /\ RecordPr(i, verdict)
            /\ UNCHANGED ops
       ELSE \E path \in PrPaths :
              /\ ops' = ops \cup path.calls
              /\ IF path.ok THEN RecordPr(i, verdict)
                            ELSE RecordError(i, "GithubException")
  /\ EndIteration
  /\ UNCHANGED <<aside, upstream, config, i, verdict, remote, saved>>

\* ------------------------------------------------------------- _direct_push
\* run's else branch: _direct_push up to its get_contents on the target
\* branch.  Dry run returns at once and the slug is recorded as pushed.
DirectPushRead ==
  /\ pc = "deploy"
  /\ ~should_pr
  /\ IF dry_run
       THEN /\ RecordPushed(i)
            /\ EndIteration
            /\ UNCHANGED ops
       ELSE /\ ops' = ops \cup {"get_contents:target"}
            /\ \E fo \in {"answer", "error"} :
                 IF fo = "error"
                   THEN /\ RecordError(i, "GithubException")
                        /\ EndIteration
                   ELSE /\ existing' = IF remote = Absent THEN NoSha ELSE BlobSha(remote)
                        /\ pc' = IF remote = Absent THEN "push_create" ELSE "push_update"
                        /\ UNCHANGED <<results, project, freshness, should_pr,
                                       remoteAtCheck, fetched, extWrites>>
  /\ UNCHANGED <<aside, upstream, config, i, verdict, remote, saved>>

\* The remote's precondition of update_file(sha=existing.sha): the file is
\* there and its blob sha is the one given.
UpdateAccepted(rem, sha) == rem # Absent /\ BlobSha(rem) = sha

\* update_file(..., sha=existing.sha, branch=self.target_branch).  A refused
\* or failed write raises into run's except clause; when the file has gone
\* the remote may answer 404, which the handler takes for "create it".
DirectPushUpdate ==
  /\ pc = "push_update"
  /\ ops' = ops \cup {"update_file:target"}
  /\ \/ /\ UpdateAccepted(remote, existing)
        /\ remote' = Draft
        /\ RecordPushed(i)
        /\ EndIteration
     \/ /\ ~UpdateAccepted(remote, existing)
        /\ RecordError(i, "GithubException 409")
        /\ EndIteration
        /\ UNCHANGED remote
     \/ /\ remote = Absent
        /\ pc' = "push_create"
        /\ UNCHANGED <<remote, results, project, freshness, should_pr, existing,
                       remoteAtCheck, fetched, extWrites>>
     \/ /\ RecordError(i, "GithubException")
        /\ EndIteration
        /\ UNCHANGED remote
  /\ UNCHANGED <<aside, upstream, config, i, verdict, saved>>

\* create_file(..., branch=self.target_branch) in the 404 handler: the
\* remote refuses to create over a file that is there.
DirectPushCreate ==
  /\ pc = "push_create"
  /\ ops' = ops \cup {"create_file:target"}
  /\ \/ /\ remote = Absent
        /\ remote' = Draft
        /\ RecordPushed(i)
     \/ /\ remote # Absent
        /\ RecordError(i, "GithubException 422")
        /\ UNCHANGED remote
     \/ /\ RecordError(i, "GithubException")
        /\ UNCHANGED remote
  /\ EndIteration
  /\ UNCHANGED <<aside, upstream, config, i, verdict, saved>>

\* ------------------------------------------------------------- other actors
\* Somebody else (a person, another run) rewrites or deletes the artifact on
\* the target branch after this run's freshness check and before its write
\* has landed.  (A write before the check is an initial content.)
ExternalWrite ==
  /\ pc \in {"deploy", "push_update", "push_create"}
  /\ extWrites < MaxExtWrites
  /\ \E c \in ExternalValues \ {remote} : remote' = c
  /\ extWrites' = extWrites + 1
  /\ UNCHANGED <<aside, upstream, config, pc, i, verdict, project, freshness, should_pr,
                 existing, remoteAtCheck, fetched, ops, results, saved>>

Next ==
  \/ RunStart
  \/ NextVerdict
  \/ FreshnessAndDecide
  \/ CreatePullRequest
  \/ DirectPushRead
  \/ DirectPushUpdate
  \/ DirectPushCreate
  \/ ExternalWrite
  \/ SaveResults

Spec == Init /\ [][Next]_vars

\* ==================================================== phase 1: the Collector
\* `if r not in reasons: reasons.append(r)`
AppendOnce(reasons, r) ==
  IF \E k \in 1..Len(reasons) : reasons[k] = r THEN reasons
  ELSE Append(reasons, r)

\* `for commit in commits:` of _calculate_significance, from commit k on;
\* acc holds score and reasons.
RECURSIVE ScoreCommits(_, _, _, _)
ScoreCommits(commits, k, acc, sc) ==
  IF k > Len(commits) THEN acc
  ELSE ScoreCommits(commits, k + 1,
         IF commits[k] = "feat"
           THEN [score |-> acc.score + sc.feat_commit,
                 reasons |-> AppendOnce(acc.reasons, "feature_commit")]
         ELSE IF commits[k] = "refactor"
           THEN [score |-> acc.score + sc.refactor_commit,
                 reasons |-> AppendOnce(acc.reasons, "refactor_commit")]
         ELSE IF commits[k] = "fix"
           THEN [score |-> acc.score + sc.fix_commit,
                 reasons |-> AppendOnce(acc.reasons, "fix_commit")]
         ELSE acc,
         sc)

\* Lines 266-301 with `score > threshold` for `score >= threshold`.
Accumulate_StrictThreshold(commits, releases, readme_changed, sc) ==
  LET start == [score |-> 0, reasons |-> <<>>]
      rel == IF releases # <<>>
               THEN [score |-> start.score + sc.new_release,
                     reasons |-> Append(start.reasons, "release_tag")]
               ELSE start
      rdm == IF readme_changed
               THEN [score |-> rel.score + sc.readme_changed,
                     reasons |-> Append(rel.reasons, "readme_changed")]
               ELSE rel
      all == ScoreCommits(commits, 1, rdm, sc)
  IN [change_score |-> all.score,
      status |-> IF all.score > sc.update_threshold THEN "update" ELSE "skip",
      change_reason |-> IF all.reasons # <<>> THEN all.reasons[1]
                        ELSE "low_significance"]

\* Lines 266-301: score and reasons of a project with activity, then the
\* threshold and the first reason.
Accumulate(commits, releases, readme_changed, sc) ==
  LET start == [score |-> 0, reasons |-> <<>>]
      rel == IF releases # <<>>
               THEN [score |-> start.score + sc.new_release,
                     reasons |-> Append(start.reasons, "release_tag")]
               ELSE start
      rdm == IF readme_changed
               THEN [score |-> rel.score + sc.readme_changed,
                     reasons |-> Append(rel.reasons, "readme_changed")]
               ELSE rel
      all == ScoreCommits(commits, 1, rdm, sc)
  IN [change_score |-> all.score,
      status |-> IF all.score >= sc.update_threshold THEN "update" ELSE "skip",
      change_reason |-> IF all.reasons # <<>> THEN all.reasons[1]
                        ELSE "low_significance"]

\* _calculate_significance with the no-activity test before the is_new test.
CalculateSignificance_ActivityFirst(commits, releases, readme_changed, is_new, sc) ==
  IF commits = <<>> /\ releases = <<>>
    THEN [change_score |-> sc.no_commits, status |-> "skip",
          change_reason |-> "no_activity"]
  ELSE IF is_new
    THEN [change_score |-> 999, status |-> "new", change_reason |-> "new_project"]
  ELSE Accumulate(commits, releases, readme_changed, sc)

\* _calculate_significance with a no-activity test that lets a changed
\* README count as activity.
CalculateSignificance_ReadmeIsActivity(commits, releases, readme_changed, is_new, sc) ==
  IF is_new
    THEN [change_score |-> 999, status |-> "new", change_reason |-> "new_project"]
  ELSE IF commits = <<>> /\ releases = <<>> /\ ~readme_changed
    THEN [change_score |-> sc.no_commits, status |-> "skip",
          change_reason |-> "no_activity"]
  ELSE Accumulate(commits, releases, readme_changed, sc)

\* _calculate_significance whose no-activity return scores above every
\* scored project.
CalculateSignificance_HighSentinel(commits, releases, readme_changed, is_new, sc) ==
  IF is_new
    THEN [change_score |-> 999, status |-> "new", change_reason |-> "new_project"]
  ELSE IF commits = <<>> /\ releases = <<>>
    THEN [change_score |-> 0 - sc.no_commits, status |-> "skip",
          change_reason |-> "no_activity"]
  ELSE Accumulate(commits, releases, readme_changed, sc)

\* _calculate_significance (lines 228-301).
CalculateSignificance(commits, releases, readme_changed, is_new, sc) ==
  IF is_new
    THEN [change_score |-> 999, status |-> "new", change_reason |-> "new_project"]
  ELSE IF commits = <<>> /\ releases = <<>>
    THEN [change_score |-> sc.no_commits, status |-> "skip",
          change_reason |-> "no_activity"]
  ELSE Accumulate(commits, releases, readme_changed, sc)

\* _check_readme_changed: no page yet, or the README that came has content.
CheckReadmeChanged(bio, readme) ==
  IF ~BioExists(bio) THEN TRUE ELSE readme # ""

\* Lines 178-186: the call of _calculate_significance for the facts f.
Scored(f, sc) ==
  CalculateSignificance(f.commits, f.releases,
                        CheckReadmeChanged(f.bio, f.readme),
                        ~BioExists(f.bio), sc)

\* The force override without its test of the status.
ForceUpdate_AnyStatus(sig, force) ==
  IF force
    THEN [sig EXCEPT !.status = "update", !.change_reason = "force_update"]
    ELSE sig

\* Lines 188-191: if self.force_update and significance["status"] == "skip"
ForceUpdate(sig, force) ==
  IF force /\ sig.status = "skip"
    THEN [sig EXCEPT !.status = "update", !.change_reason = "force_update"]
    ELSE sig

\* _collect_project for slug with facts f: the entry it returns, and what
\* _calculate_significance returned to it (before line 190 changes the dict).
CollectProject(slug, f, force, sc) ==
  IF BioLocked(f.bio)
    THEN [entry |-> [slug |-> slug, exists |-> TRUE, locked |-> TRUE,
                     status |-> "skip", change_score |-> 0,
                     change_reason |-> "locked"],
          significance |-> NoSignificance]
  ELSE IF f.fetch = "error"
    THEN [entry |-> [slug |-> slug, exists |-> BioExists(f.bio),
                     locked |-> FALSE, status |-> "error", change_score |-> 0,
                     change_reason |-> "fetch_error"],
          significance |-> NoSignificance]
  ELSE LET sig == ForceUpdate(Scored(f, sc), force)
       IN [entry |-> [slug |-> slug, exists |-> BioExists(f.bio),
                      locked |-> FALSE, status |-> sig.status,
                      change_score |-> sig.change_score,
                      change_reason |-> sig.change_reason],
           significance |-> Scored(f, sc)]

\* Line 79 of Collector.run: _collect_project for the next project.
Collect ==
  /\ phase = "collector"
  /\ project_data = NoEntry
  /\ Len(context) < NumProjects
  /\ \E f \in Facts :
       LET r == CollectProject(Len(context) + 1, f, force_update, scoring)
       IN /\ facts' = f
          /\ significance' = r.significance
          /\ project_data' = r.entry
  /\ UNCHANGED <<aside, deployer, phase, force_update, scoring, context, failed, marked,
                 responses, disk, drafts, verdicts, choices>>

\* Line 80: context["projects"].append(project_data).  Of the entry, the
\* keys the writer filters on are kept.  The locals of the pass are dead.
AppendProjectData ==
  /\ phase = "collector"
  /\ project_data # NoEntry
  /\ context' = Append(context, [status |-> project_data.status,
                                 locked |-> project_data.locked])
  /\ failed' = IF facts.fetch \in {"error", "readme_http_error"}
                 THEN failed \cup {project_data.slug} ELSE failed
  /\ marked' = IF BioMarked(facts.bio)
                 THEN marked \cup {project_data.slug} ELSE marked
  /\ facts' = NoFacts
  /\ significance' = NoSignificance
  /\ project_data' = NoEntry
  /\ UNCHANGED <<aside, deployer, phase, force_update, scoring, responses, disk,
                 drafts, verdicts, choices>>

\* The loop is over: _save_context (line 93).
SaveContext ==
  /\ phase = "collector"
  /\ project_data = NoEntry
  /\ Len(context) = NumProjects
  /\ phase' = "writer"
  /\ UNCHANGED <<aside, deployer, force_update, scoring, facts, significance,
                 project_data, context, failed, marked, responses, disk, drafts,
                 verdicts, choices>>

\* ======================================================= phase 2: the Writer
\* What the services answer for a slug during the run: whether
\* _generate_draft returns a draft or raises, the status of the review
\* ("ERROR": _review_draft raises), and whether the deployer finds the
\* target changed since the snapshot.
NoResponse == [generate |-> "none", review |-> "none", stale |-> FALSE]
Responses ==
  {[generate |-> "error", review |-> "none", stale |-> FALSE]}
  \cup {[generate |-> "ok", review |-> r, stale |-> st] :
          r \in {"APPROVE", "FLAGGED"}, st \in BOOLEAN}
  \cup {[generate |-> "ok", review |-> r, stale |-> FALSE] :
          r \in {"REJECT", "ERROR"}}

\* Lines 62-65 of WriterAgent.run
NeedsDraft(p) == p.status \in {"update", "new"} /\ ~p.locked

\* The answers a run can get for the projects of ctx: one for each project
\* the writer generates a draft for.
ResponsesFor(ctx) ==
  {r \in [1..Len(ctx) -> Responses \cup {NoResponse}] :
     \A k \in 1..Len(ctx) : (r[k] = NoResponse) <=> ~NeedsDraft(ctx[k])}

Indices(n) == [k \in 1..n |-> k]
Range(seq) == {seq[k] : k \in 1..Len(seq)}

\* Lines 75-95 of WriterAgent.run: results["drafts"], in the order of the
\* context.  A project whose generation raised goes to results["errors"].
WriterDrafts(ctx, resp) ==
  LET Drafted(k) == NeedsDraft(ctx[k]) /\ resp[k].generate = "ok"
  IN SelectSeq(Indices(Len(ctx)), Drafted)

\* _save_draft for each draft: the file is written unless dry_run.
SaveDrafts(dsk, ds, dry) == IF dry THEN dsk ELSE dsk \cup Range(ds)

WriterRun ==
  /\ phase = "writer"
  /\ \E resp \in ResponsesFor(context) :
       /\ responses' = resp
       /\ drafts' = WriterDrafts(context, resp)
       /\ disk' = SaveDrafts(disk, WriterDrafts(context, resp), dry_run)
  /\ phase' = "editor"
  /\ UNCHANGED <<aside, deployer, force_update, scoring, facts, significance,
                 project_data, context, failed, marked, verdicts, choices>>

\* ======================================================= phase 3: the Editor
\* Lines 75-128 of EditorAgent.run: a draft whose file is missing is passed
\* over; every other draft gets a verdict.
EditorVerdicts(ds, resp, dsk) ==
  LET OnDisk(slug) == slug \in dsk
      reviewed == SelectSeq(ds, OnDisk)
  IN [k \in 1..Len(reviewed) |->
        [slug |-> reviewed[k], status |-> resp[reviewed[k]].review]]

\* With no drafts in writer_results.json run returns before the loop and
\* writes no editor_results.json (lines 61-63): no verdicts either way.
EditorRun ==
  /\ phase = "editor"
  /\ verdicts' = EditorVerdicts(drafts, responses, disk)
  /\ phase' = "deployer"
  /\ UNCHANGED <<aside, deployer, force_update, scoring, facts, significance,
                 project_data, context, failed, marked, responses, disk, drafts,
                 choices>>

\* =========================================== phase 4, seen from the pipeline
\* What Deployer.run does with the verdict v: lines 77-111.  The verdicts of
\* the editor carry status and reason, and a change_percentage under the
\* threshold.
GatekeeperChoice(v, resp, dsk) ==
  LET ver == [status |-> v.status, reason |-> "r", change_percentage |-> Num(0)]
  IN IF StatusOf(ver) \in {"REJECT", "ERROR"} THEN "skip"
     ELSE IF v.slug \notin dsk THEN "error"
     ELSE IF ShouldPr(resp[v.slug].stale, StatusOf(ver), ver) THEN "pull-request"
     ELSE "direct-write"

DeployerChoices(vs, resp, dsk) ==
  [k \in 1..Len(vs) |->
     [slug |-> vs[k].slug, choice |-> GatekeeperChoice(vs[k], resp, dsk)]]

\* A deployer that records a detected conflict in the context entry instead
\* of in the verdict.
DeployerRun_MarksContext ==
  /\ phase = "deployer"
  /\ choices' = DeployerChoices(verdicts, responses, disk)
  /\ phase' = "done"
  /\ context' = [k \in 1..Len(context) |->
                   IF \E n \in 1..Len(verdicts) :
                        verdicts[n].slug = k /\ responses[k].stale
                     THEN [context[k] EXCEPT !.status = "conflict"]
                     ELSE context[k]]
  /\ UNCHANGED <<aside, deployer, force_update, scoring, facts, significance,
                 project_data, failed, marked, responses, disk, drafts, verdicts>>

DeployerRun ==
  /\ phase = "deployer"
  /\ choices' = DeployerChoices(verdicts, responses, disk)
  /\ phase' = "done"
  /\ UNCHANGED <<aside, deployer, force_update, scoring, facts, significance,
                 project_data, context, failed, marked, responses, disk, drafts,
                 verdicts>>

\* ------------------------------------------------ the Observer's functions
\* _data/deployer_results.json as the observer loads it: no file, or the
\* lengths of its lists pushed, prs and errors.
DeployerResults ==
  {NoRunLog}
  \cup {[results |-> TRUE, pushed |-> p, prs |-> q, errors |-> e,
         success |-> FALSE] : p \in {0, 2}, q \in {0, 1}, e \in {0, 1}}

\* _determine_success that does not look at the errors.
DetermineSuccess_IgnoresErrors(dr) ==
  IF ~dr.results THEN FALSE
  ELSE dr.pushed > 0 \/ dr.prs > 0

\* _determine_success (lines 180-190)
DetermineSuccess(dr) ==
  IF ~dr.results THEN FALSE
  ELSE (dr.pushed > 0 \/ dr.prs > 0) /\ dr.errors = 0

\* run_log["phases"]["deployer"] of _summarize_deployer, read with
\* deployer.get("pushed", 0) and deployer.get("prs_created", 0).
SummaryPushed(dr) == IF dr.results THEN dr.pushed ELSE 0
SummaryPrs(dr) == IF dr.results THEN dr.prs ELSE 0

\* runs[:n]
FirstRuns(runs, n) == SubSeq(runs, 1, IF Len(runs) < n THEN Len(runs) ELSE n)

\* _update_dashboard that appends the summary and keeps the first 20.
UpdateDashboard_KeepsOldest(d, log, run_id) ==
  [total_runs |-> d.total_runs + 1,
   successful_runs |-> d.successful_runs + (IF log.success THEN 1 ELSE 0),
   failed_runs |-> d.failed_runs + (IF log.success THEN 0 ELSE 1),
   total_projects_updated |->
     d.total_projects_updated + SummaryPushed(log) + SummaryPrs(log),
   total_prs_created |-> d.total_prs_created + SummaryPrs(log),
   total_direct_pushes |-> d.total_direct_pushes + SummaryPushed(log),
   runs |-> FirstRuns(Append(d.runs, run_id), KeepRuns)]

\* _update_dashboard (lines 299-321).  Of the summary of a run its run_id is
\* kept.
UpdateDashboard(d, log, run_id) ==
  [total_runs |-> d.total_runs + 1,
   successful_runs |-> d.successful_runs + (IF log.success THEN 1 ELSE 0),
   failed_runs |-> d.failed_runs + (IF log.success THEN 0 ELSE 1),
   total_projects_updated |->
     d.total_projects_updated + SummaryPushed(log) + SummaryPrs(log),
   total_prs_created |-> d.total_prs_created + SummaryPrs(log),
   total_direct_pushes |-> d.total_direct_pushes + SummaryPushed(log),
   runs |-> FirstRuns(<<run_id>> \o d.runs, KeepRuns)]

\* len(results[...]) of the lists the deployer saved.
CountChoices(cs, c) == Cardinality({k \in 1..Len(cs) : cs[k].choice = c})

\* Observer.run (lines 43-82) at the end of the pipeline: it loads
\* context.json and the results of the phases and writes the run log and the
\* dashboard.
ObservePipeline ==
  /\ phase = "done"
  /\ LET dr == [results |-> TRUE,
                pushed |-> CountChoices(choices, "direct-write"),
                prs |-> CountChoices(choices, "pull-request"),
                errors |-> CountChoices(choices, "error"),
                success |-> FALSE]
         log == [dr EXCEPT !.success = DetermineSuccess(dr)]
     IN /\ run_log' = log
        /\ dashboard' = UpdateDashboard(dashboard, log, 1)
  /\ phase' = "observed"
  /\ UNCHANGED <<deployer, editing, injecting, force_update, scoring, facts,
                 significance, project_data, context, failed, marked, responses, disk,
                 drafts, verdicts, choices>>

\* ============================================================ the pipeline
PipelineInit ==
  /\ mode \in {"auto", "manual"}
  /\ force_pr_on_high_risk = TRUE
  /\ dry_run \in BOOLEAN
  /\ has_editor_results = FALSE
  /\ pc = "start"
  /\ i = 0
  /\ verdict = [status |-> Missing, reason |-> Missing,
                change_percentage |-> [kind |-> "missing", val |-> 0]]
  /\ project = NoContext
  /\ freshness = FreshResult
  /\ should_pr = FALSE
  /\ existing = NoSha
  /\ remote = Absent
  /\ remoteAtCheck = Absent
  /\ fetched = "none"
  /\ ops = {}
  /\ extWrites = 0
  /\ pushed = <<>> /\ prs = <<>> /\ skipped = <<>> /\ errors = <<>>
  /\ saved = FALSE
  /\ phase = "collector"
  /\ force_update \in BOOLEAN
  /\ scoring \in Scorings
  /\ facts = NoFacts
  /\ significance = NoSignificance
  /\ project_data = NoEntry
  /\ context = <<>>
  /\ failed = {}
  /\ marked = {}
  /\ responses = <<>>
  /\ disk = {}
  /\ drafts = <<>>
  /\ verdicts = <<>>
  /\ choices = <<>>
  /\ AsideIdle

PipelineNext ==
  \/ Collect
  \/ AppendProjectData
  \/ SaveContext
  \/ WriterRun
  \/ EditorRun
  \/ DeployerRun
  \/ ObservePipeline

Pipeline == PipelineInit /\ [][PipelineNext]_vars

\* ========================================== phase 3: the loop of the Editor
\* What the review service answers for a draft: a JSON object with a status,
\* a JSON object without one, text that is not JSON, JSON that is not an
\* object (a list, a string), or the request raises.
Answers == {"object", "no_status", "not_json", "not_object", "raises"}
\* The status in a JSON object of the reviewer.
ReviewStatuses == {"APPROVE", "FLAGGED", "REJECT"}

\* A draft of writer_results.json as the loop meets it: its file is there or
\* not, the answer of the reviewer, and what the deterministic checks find
\* in the draft.
Reviews ==
  {[NoReview EXCEPT !.answer = "no_file"]}
  \cup {r \in [on_disk : {TRUE}, answer : Answers,
               status : ReviewStatuses \cup {Missing}, forbidden : BOOLEAN,
               valid_html : BOOLEAN, missing_section : BOOLEAN] :
          (r.answer = "object") <=> (r.status # Missing)}

\* _review_draft (lines 173-207): the verdict it returns.  kind "other" is a
\* value that is not a dict.
ReviewDraft(r) ==
  IF r.answer = "not_json" THEN [kind |-> "dict", status |-> "FLAGGED"]
  ELSE IF r.answer = "not_object" THEN [kind |-> "other", status |-> Missing]
  ELSE [kind |-> "dict", status |-> r.status]

\* _add_deterministic_checks (lines 223-253): verdict.get on a value that is
\* not a dict raises, and so does verdict["status"] on a dict without the
\* key when a forbidden word was found.  A missing required section only
\* adds an issue.
AddDeterministicChecks(v, r) ==
  IF v.kind # "dict" THEN [raised |-> TRUE, verdict |-> v]
  ELSE IF r.forbidden /\ v.status = Missing THEN [raised |-> TRUE, verdict |-> v]
  ELSE LET words == IF r.forbidden /\ v.status = "APPROVE"
                      THEN [v EXCEPT !.status = "FLAGGED"] ELSE v
           html == IF ~r.valid_html
                     THEN [words EXCEPT !.status = "REJECT"] ELSE words
       IN [raised |-> FALSE, verdict |-> html]

\* One pass of the loop of EditorAgent.run (lines 75-128) for the draft r:
\* how it ended, the status of the verdict the checks returned, and the
\* entries it appended to results["verdicts"].
ReviewPass(slug, r) ==
  IF ~r.on_disk
    THEN [ended |-> "no_file", status |-> Missing, entries |-> <<>>]
  ELSE IF r.answer = "raises"
    THEN [ended |-> "review_raised", status |-> Missing,
          entries |-> <<[slug |-> slug, status |-> "ERROR"]>>]
  ELSE LET c == AddDeterministicChecks(ReviewDraft(r), r)
       IN IF c.raised
            THEN [ended |-> "checks_raised", status |-> Missing,
                  entries |-> <<[slug |-> slug, status |-> "ERROR"]>>]
          ELSE IF c.verdict.status = Missing
            THEN [ended |-> "count_raised", status |-> Missing,
                  entries |-> <<[slug |-> slug, status |-> Missing],
                                [slug |-> slug, status |-> "ERROR"]>>]
          ELSE [ended |-> "counted", status |-> c.verdict.status,
                entries |-> <<[slug |-> slug, status |-> c.verdict.status]>>]

ReviewNext ==
  /\ phase = "editor"
  /\ reviews_done < Len(drafts)
  /\ \E r \in Reviews :
       LET pass == ReviewPass(drafts[reviews_done + 1], r)
       IN /\ review' = r
          /\ outcome' = [ended |-> pass.ended, status |-> pass.status,
                         appended |-> Len(pass.entries)]
          /\ verdicts' = verdicts \o pass.entries
  /\ reviews_done' = reviews_done + 1
  /\ UNCHANGED <<deployer, injecting, observing, phase, force_update, scoring,
                 facts, significance, project_data, context, failed, marked,
                 responses, disk, drafts, choices>>

\* The loop is over: _save_results (line 131).
SaveEditorResults ==
  /\ phase = "editor"
  /\ reviews_done = Len(drafts)
  /\ phase' = "deployer"
  /\ review' = NoReview
  /\ outcome' = NoOutcome
  /\ UNCHANGED <<deployer, injecting, observing, reviews_done, force_update,
                 scoring, facts, significance, project_data, context, failed, marked,
                 responses, disk, drafts, verdicts, choices>>

\* The editor started on writer_results.json listing NumProjects drafts.
EditorInit ==
  /\ mode \in {"auto", "manual"}
  /\ force_pr_on_high_risk \in BOOLEAN
  /\ dry_run = FALSE
  /\ has_editor_results = FALSE
  /\ pc = "start"
  /\ i = 0
  /\ verdict = [status |-> Missing, reason |-> Missing,
                change_percentage |-> [kind |-> "missing", val |-> 0]]
  /\ project = NoContext
  /\ freshness = FreshResult
  /\ should_pr = FALSE
  /\ existing = NoSha
  /\ remote = Absent
  /\ remoteAtCheck = Absent
  /\ fetched = "none"
  /\ ops = {}
  /\ extWrites = 0
  /\ pushed = <<>> /\ prs = <<>> /\ skipped = <<>> /\ errors = <<>>
  /\ saved = FALSE
  /\ phase = "editor"
  /\ force_update = FALSE
  /\ scoring = Scoring(100, 40, 30, 30, 15, -999, 50)
  /\ facts = NoFacts
  /\ significance = NoSignificance
  /\ project_data = NoEntry
  /\ context = <<>>
  /\ failed = {}
  /\ marked = {}
  /\ responses = <<>>
  /\ disk = {}
  /\ drafts = Indices(NumProjects)
  /\ verdicts = <<>>
  /\ choices = <<>>
  /\ AsideIdle

EditorNext ==
  \/ ReviewNext
  \/ SaveEditorResults

Editor == EditorInit /\ [][EditorNext]_vars

\* =================================== phase 2: the manual sections of a draft
\* Names of manual sections.
SectionNames == {"a", "b"}
\* The text between the markers of a manual section, as a list of pieces: a
\* plain character "x", and the two-character texts backslash-backslash,
\* backslash-n, backslash-1 and backslash-d.
Pieces == {"x", "\\\\", "\\n", "\\1", "\\d"}
SectionTexts == {<<"x">>} \cup {<<"x", p>> : p \in Pieces \ {"x"}}
\* The text the model generated between the markers of a placeholder.
PlaceholderText == <<"placeholder">>

\* A stretch of HTML outside manual sections, and a manual section
\* <!-- MANUAL:name -->text<!-- /MANUAL:name -->.
TextRegion == [kind |-> "text", name |-> "", text |-> <<>>]
Section(name, text) == [kind |-> "manual", name |-> name, text |-> text]

\* Published artifacts and generated drafts, as lists of regions.
Artifacts ==
  UNION {[1..n -> {TextRegion} \cup {Section(nm, t) : nm \in SectionNames,
                                                      t \in SectionTexts}] :
           n \in 0..MaxRegions}
GeneratedDrafts ==
  UNION {[1..n -> {TextRegion} \cup {Section(nm, PlaceholderText) :
                                       nm \in SectionNames}] :
           n \in 0..MaxRegions}

\* _extract_manual_sections: re.findall of the blocks, in their order.
ExtractManualSections(html) ==
  LET IsSection(r) == r.kind = "manual" IN SelectSeq(html, IsSection)

\* re.sub reads its replacement as a template: backslash-1 is a reference to
\* a group the placeholder pattern does not have and backslash-d is a bad
\* escape; both raise re.error, whether or not the pattern matches.
TemplateRaises(text) ==
  \E k \in 1..Len(text) : text[k] \in {"\\1", "\\d"}
\* The template expanded: backslash-backslash gives one backslash,
\* backslash-n a newline.
ExpandTemplate(text) ==
  [k \in 1..Len(text) |->
     IF text[k] = "\\\\" THEN "\\"
     ELSE IF text[k] = "\\n" THEN "<newline>"
     ELSE text[k]]

\* Lines 220-226: every region the placeholder pattern of the section's name
\* matches is replaced by the expanded section.
SubstituteSection(html, section) ==
  [j \in 1..Len(html) |->
     IF html[j].kind = "manual" /\ html[j].name = section.name
       THEN Section(section.name, ExpandTemplate(section.text))
       ELSE html[j]]

\* One pass of the loop of _inject_manual_sections (lines 211-226).
InjectSection ==
  /\ phase = "inject"
  /\ ~inject_raised
  /\ injected < Len(manual_sections)
  /\ injected' = injected + 1
  /\ IF TemplateRaises(manual_sections[injected + 1].text)
       THEN /\ inject_raised' = TRUE
            /\ UNCHANGED draft_html
       ELSE /\ draft_html' = SubstituteSection(draft_html,
                                               manual_sections[injected + 1])
            /\ UNCHANGED inject_raised
  /\ UNCHANGED <<deployer, upstream, editing, observing, manual_sections,
                 original>>

\* _generate_draft has the draft of the model and calls
\* _inject_manual_sections with the sections the index extracted.
InjectInit ==
  /\ mode = "auto"
  /\ force_pr_on_high_risk = TRUE
  /\ dry_run = FALSE
  /\ has_editor_results = FALSE
  /\ pc = "start"
  /\ i = 0
  /\ verdict = [status |-> Missing, reason |-> Missing,
                change_percentage |-> [kind |-> "missing", val |-> 0]]
  /\ project = NoContext
  /\ freshness = FreshResult
  /\ should_pr = FALSE
  /\ existing = NoSha
  /\ remote = Absent
  /\ remoteAtCheck = Absent
  /\ fetched = "none"
  /\ ops = {}
  /\ extWrites = 0
  /\ pushed = <<>> /\ prs = <<>> /\ skipped = <<>> /\ errors = <<>>
  /\ saved = FALSE
  /\ phase = "inject"
  /\ force_update = FALSE
  /\ scoring = Scoring(100, 40, 30, 30, 15, -999, 50)
  /\ facts = NoFacts
  /\ significance = NoSignificance
  /\ project_data = NoEntry
  /\ context = <<>>
  /\ failed = {}
  /\ marked = {}
  /\ responses = <<>>
  /\ disk = {}
  /\ drafts = <<>>
  /\ verdicts = <<>>
  /\ choices = <<>>
  /\ reviews_done = 0
  /\ review = NoReview
  /\ outcome = NoOutcome
  /\ manual_sections \in {ExtractManualSections(a) : a \in Artifacts}
  /\ original \in GeneratedDrafts
  /\ draft_html = original
  /\ injected = 0
  /\ inject_raised = FALSE
  /\ dashboard = NewDashboard
  /\ run_log = NoRunLog

InjectNext == InjectSection

Inject == InjectInit /\ [][InjectNext]_vars

\* ====================================================== phase 5: the Observer
\* Observer.run (lines 43-82).  The run_id is the time of the run: runs are
\* numbered in the order they happen.
ObserverRun ==
  /\ phase = "observer"
  /\ dashboard.total_runs < MaxRuns
  /\ \E dr \in DeployerResults :
       LET log == [dr EXCEPT !.success = DetermineSuccess(dr)]
       IN /\ run_log' = log
          /\ dashboard' = UpdateDashboard(dashboard, log,
                                          dashboard.total_runs + 1)
  /\ UNCHANGED <<deployer, upstream, editing, injecting>>

ObserverInit ==
  /\ mode = "auto"
  /\ force_pr_on_high_risk = TRUE
  /\ dry_run = FALSE
  /\ has_editor_results = FALSE
  /\ pc = "start"
  /\ i = 0
  /\ verdict = [status |-> Missing, reason |-> Missing,
                change_percentage |-> [kind |-> "missing", val |-> 0]]
  /\ project = NoContext
  /\ freshness = FreshResult
  /\ should_pr = FALSE
  /\ existing = NoSha
  /\ remote = Absent
  /\ remoteAtCheck = Absent
  /\ fetched = "none"
  /\ ops = {}
  /\ extWrites = 0
  /\ pushed = <<>> /\ prs = <<>> /\ skipped = <<>> /\ errors = <<>>
  /\ saved = FALSE
  /\ phase = "observer"
  /\ force_update = FALSE
  /\ scoring = Scoring(100, 40, 30, 30, 15, -999, 50)
  /\ facts = NoFacts
  /\ significance = NoSignificance
  /\ project_data = NoEntry
  /\ context = <<>>
  /\ failed = {}
  /\ marked = {}
  /\ responses = <<>>
  /\ disk = {}
  /\ drafts = <<>>
  /\ verdicts = <<>>
  /\ choices = <<>>
  /\ AsideIdle

ObserverNext == ObserverRun

Observer == ObserverInit /\ [][ObserverNext]_vars

\* ============================================================== properties
\* The slugs recorded in one of the lists of results.
Slugs(list) == {list[k].slug : k \in 1..Len(list)}

\* The gatekeeper has chosen the direct write for the verdict in hand, or
\* _direct_push is under way.
DirectWritePath ==
  \/ pc = "deploy" /\ ~should_pr
  \/ pc \in {"push_update", "push_create"}

\* The gatekeeper has chosen the pull request for the verdict in hand.
PullRequestPath == pc = "deploy" /\ should_pr

\* A step of the direct write: a call that writes the target branch, or the
\* slug being recorded as pushed.
DirectWriteStep ==
  \/ (ops' \ ops) \cap TargetWrites # {}
  \/ Len(pushed') > Len(pushed)

\* The step of the pull request path: the slug is recorded in prs, or in
\* errors when a call of _create_pull_request failed; nothing is pushed.
PullRequestStep ==
  /\ pc = "deploy" /\ should_pr /\ pc' = "loop"
  /\ pushed' = pushed /\ skipped' = skipped
  /\ \/ Len(prs') = Len(prs) + 1 /\ errors' = errors
     \/ Len(errors') = Len(errors) + 1 /\ prs' = prs

\* C1: a verdict whose status is REJECT or ERROR, or that has no status, is
\* the last entry of skipped with its own reason (the default text when it
\* has none), is in no other list, and no freshness check and no remote call
\* of any kind was made for it.
C1_RejectedIsSkipped ==
  (i >= 1 /\ verdict.status \in {"REJECT", "ERROR", Missing}) =>
     /\ pc \in {"loop", "done"}
     /\ Len(skipped) >= 1
     /\ skipped[Len(skipped)].slug = i
     /\ skipped[Len(skipped)].reason =
          (IF verdict.reason = Missing THEN "Rejected by Editor" ELSE verdict.reason)
     /\ i \notin Slugs(pushed) \cup Slugs(prs) \cup Slugs(errors)
     /\ ops = {}
     /\ fetched = "none"
     /\ freshness = FreshResult

\* C1 witness: a verdict without status has been skipped with its reason.
C1_Witness ==
  /\ i = 2
  /\ verdict.status = Missing
  /\ verdict.reason = "r"
  /\ skipped # <<>>
  /\ skipped[Len(skipped)] = [slug |-> 2, reason |-> "r"]
  /\ ops = {}

\* C2: while the freshness check of the verdict in hand says stale, the
\* gatekeeper's choice is the pull request, and the step that deploys the
\* draft is the pull request's, never one of the direct write; whatever the
\* mode, the status, the risk and the policy.
C2_StaleForcesPullRequest ==
  /\ [](freshness.stale => PullRequestPath)
  /\ [][freshness.stale => (~DirectWriteStep /\ (pc' # pc => PullRequestStep))]_vars

\* C2 witness: stale, and yet auto mode, APPROVE and no risk at all.
C2_Witness ==
  /\ freshness.stale
  /\ mode = "auto"
  /\ verdict.status = "APPROVE"
  /\ verdict.change_percentage.kind = "missing"
  /\ PullRequestPath

\* C3 (as claimed): the direct write is chosen only in auto mode, for status
\* APPROVE exactly, for a draft that is not stale, and with a change
\* percentage not above the threshold unless the policy is off.
C3_DirectWriteOnlyIfApproved ==
  DirectWritePath =>
     /\ mode = "auto"
     /\ verdict.status = "APPROVE"
     /\ ~freshness.stale
     /\ \/ ~force_pr_on_high_risk
        \/ ChangePct(verdict).kind = "num" /\ ChangePct(verdict).val <= HighRiskThreshold

\* C4 (as claimed): when the artifact on the target branch is no longer what
\* it was when the freshness check returned, the step that ends the direct
\* write leaves the artifact as the other actor left it, records the draft
\* in errors and not in pushed.
C4_ConcurrentWriteNotOverwritten ==
  [][(pc \in {"push_update", "push_create"} /\ remote # remoteAtCheck /\ pc' = "loop")
       => /\ remote' = remote
          /\ pushed' = pushed
          /\ Len(errors') = Len(errors) + 1
          /\ errors'[Len(errors')].slug = i]_vars

\* The text a snapshot entry records: an absent content is no text.
SnapshotText(p) == IF p.current_html = None THEN "" ELSE p.current_html

\* C5 (as claimed): for an entry recorded as existing whose artifact the
\* freshness check fetched, stale is true exactly when the fetched content
\* is not the content of the snapshot, whatever the snapshot holds (an
\* absent content being compared as the empty text).
C5_StaleIffContentDiffers ==
  (pc = "deploy" /\ project.kind = "entry" /\ project.exists /\ fetched = "file")
     => (freshness.stale <=> remoteAtCheck # SnapshotText(project))

\* C6: when the entry is recorded as existing and the fetch of the freshness
\* check is answered 404, the check says stale, the gatekeeper's choice is
\* the pull request, and no step of the direct write is taken.
C6_DeletedIsStale ==
  /\ []((project.kind = "entry" /\ project.exists /\ fetched = "404")
          => (freshness.stale /\ PullRequestPath))
  /\ [][(project.kind = "entry" /\ project.exists /\ fetched = "404")
          => ~DirectWriteStep]_vars

\* C6 witness: an approved draft in auto mode whose artifact was deleted.
C6_Witness ==
  /\ project = Entry(TRUE, "h1")
  /\ fetched = "404"
  /\ remoteAtCheck = Absent
  /\ mode = "auto"
  /\ verdict.status = "APPROVE"
  /\ freshness.stale
  /\ PullRequestPath

\* C7: for an entry recorded as not existing the freshness check says not
\* stale and makes no fetch: no remote call has been made when the check
\* returns, whatever the artifact holds by then.
C7_NewProjectNotStale ==
  (pc \in {"deploy", "aborted"} /\ project.kind = "entry" /\ ~project.exists)
     => /\ ~freshness.stale
        /\ fetched = "none"
        /\ "get_contents:target" \notin ops

\* C7 witness: the check has returned not stale for a new project whose
\* artifact another actor created after the snapshot.
C7_Witness ==
  /\ pc = "deploy"
  /\ project = Entry(FALSE, None)
  /\ remoteAtCheck = "h1"
  /\ ~freshness.stale
  /\ ops = {}

\* C8: in manual mode, and for a FLAGGED verdict in any mode, the choice of
\* the gatekeeper is the pull request, and no step of the direct write is
\* taken for that verdict.
C8_ManualOrFlaggedTakesPullRequest ==
  /\ []((pc \in {"deploy", "push_update", "push_create"}
          /\ (mode = "manual" \/ verdict.status = "FLAGGED")) => PullRequestPath)
  /\ [][(i >= 1 /\ (mode = "manual" \/ verdict.status = "FLAGGED"))
          => ~DirectWriteStep]_vars

\* C8 witness: a FLAGGED verdict in auto mode, fresh and without risk, has
\* been given the pull request.
C8_Witness ==
  /\ mode = "auto"
  /\ verdict.status = "FLAGGED"
  /\ verdict.change_percentage.kind = "missing"
  /\ ~freshness.stale
  /\ PullRequestPath

\* C9: for an APPROVE verdict in auto mode that is not stale, the choice is
\* the pull request exactly when the policy is on and the change percentage
\* is a number greater than the threshold; otherwise it is the direct write.
C9_HighRiskForcesPullRequest ==
  (pc = "deploy" /\ mode = "auto" /\ verdict.status = "APPROVE" /\ ~freshness.stale)
     => (should_pr <=>
           /\ force_pr_on_high_risk
           /\ verdict.change_percentage.kind = "num"
           /\ verdict.change_percentage.val > HighRiskThreshold)

\* C9 witness: a change percentage equal to the threshold, policy on, and
\* the direct write is chosen.
C9_Witness ==
  /\ pc = "deploy"
  /\ mode = "auto"
  /\ force_pr_on_high_risk
  /\ verdict.status = "APPROVE"
  /\ verdict.change_percentage = Num(HighRiskThreshold)
  /\ ~freshness.stale
  /\ ~should_pr

\* The number of entries the lists of results hold for verdict n.
Outcomes(n) ==
  Cardinality({k \in 1..Len(pushed) : pushed[k].slug = n})
  + Cardinality({k \in 1..Len(prs) : prs[k].slug = n})
  + Cardinality({k \in 1..Len(skipped) : skipped[k].slug = n})
  + Cardinality({k \in 1..Len(errors) : errors[k].slug = n})

\* C10 (as claimed): every verdict the run has taken in hand and left, by
\* going on to the next verdict or by ending, has exactly one entry in the
\* four lists together.
C10_ExactlyOneOutcome ==
  \A n \in 1..i :
     (n < i \/ pc \in {"loop", "done", "aborted"}) => Outcomes(n) = 1

\* C11 (as claimed): a failure while one verdict is handled is recorded for
\* that verdict and the loop goes on: a run that found editor results stops
\* only after every verdict was taken in hand, and then saves its results.
C11_FailureDoesNotAbortRun ==
  (has_editor_results /\ pc \in {"done", "aborted"})
     => (i = NumVerdicts /\ saved)

\* C12: in a dry run the only remote calls made for a verdict are reads: no
\* branch is created or deleted, no file created or updated, no pull request
\* opened, no label added, whichever path the gatekeeper chose.
C12_DryRunOnlyReads ==
  dry_run => (ops \cap MutationOps = {} /\ ops \subseteq ReadOps)

\* A dry run in which both paths were taken: one verdict recorded as a pull
\* request and one as pushed, after the freshness check read the remote.
C12_Witness ==
  /\ dry_run
  /\ prs # <<>>
  /\ pushed # <<>>
  /\ "get_contents:target" \in ops

\* What the pipeline decides, computed from the context and the answers of
\* the services with dry_run off.
WetDrafts == WriterDrafts(context, responses)
WetDisk == SaveDrafts({}, WetDrafts, FALSE)
WetVerdicts == EditorVerdicts(WetDrafts, responses, WetDisk)
WetChoices == DeployerChoices(WetVerdicts, responses, WetDisk)

\* C13 (as claimed): when the pipeline has run, with dry_run on or off, the
\* drafts reviewed and their review status, and the gatekeeper's choice for
\* each of them, are those of the run with dry_run off on the same projects
\* and the same answers.  (The change verdicts come from the collector,
\* which reads dry_run nowhere.)
C13_DryRunSameDecisions ==
  phase = "done" => (verdicts = WetVerdicts /\ choices = WetChoices)

\* _collect_project has returned from a call in which the scorer ran.
ScorerRan ==
  /\ phase = "collector"
  /\ project_data # NoEntry
  /\ facts.bio # "locked"
  /\ facts.fetch # "error"

\* C14: for a project with no page yet the scorer returns status new, score
\* 999 and reason new_project, whatever the commits, releases, README,
\* weights and threshold.
C14_NewProjectIsNew ==
  (ScorerRan /\ facts.bio = "absent")
    => significance = [change_score |-> 999, status |-> "new",
                       change_reason |-> "new_project"]

\* A new project without commits or releases, under the highest threshold.
C14_Witness ==
  /\ ScorerRan
  /\ facts.bio = "absent"
  /\ facts.commits = <<>> /\ facts.releases = <<>>
  /\ \A sc \in Scorings : scoring.update_threshold >= sc.update_threshold
  /\ project_data.status = "new"

\* C15: for a project with a page, no commits and no releases the scorer
\* returns status skip, reason no_activity and the configured no-activity
\* score, whether or not its README counts as changed.
C15_NoActivityIsSkip ==
  (ScorerRan /\ facts.bio = "page" /\ facts.commits = <<>> /\ facts.releases = <<>>)
    => significance = [change_score |-> scoring.no_commits, status |-> "skip",
                       change_reason |-> "no_activity"]

\* No activity, and a README that counts as changed.
C15_Witness ==
  /\ ScorerRan
  /\ facts.bio = "page"
  /\ facts.commits = <<>> /\ facts.releases = <<>>
  /\ CheckReadmeChanged(facts.bio, facts.readme)
  /\ significance.change_reason = "no_activity"

\* The number of commits of type t in the list.
CountOf(commits, t) == Cardinality({k \in 1..Len(commits) : commits[k] = t})

\* C16: for a project with a page and at least one commit or release the
\* score is the release bonus if there is a release, plus the README bonus
\* if the README counts as changed, plus the feat, refactor and fix weight
\* for every commit of that type (nothing for other commits); the status is
\* update if the score reaches the threshold and skip otherwise.
C16_ScoreIsSumOfBonuses ==
  (ScorerRan /\ facts.bio = "page"
     /\ (facts.commits # <<>> \/ facts.releases # <<>>))
    => /\ significance.change_score =
            (IF facts.releases # <<>> THEN scoring.new_release ELSE 0)
            + (IF facts.readme # "" THEN scoring.readme_changed ELSE 0)
            + CountOf(facts.commits, "feat") * scoring.feat_commit
            + CountOf(facts.commits, "refactor") * scoring.refactor_commit
            + CountOf(facts.commits, "fix") * scoring.fix_commit
       /\ significance.status =
            IF significance.change_score >= scoring.update_threshold
              THEN "update" ELSE "skip"

\* One feat commit and one release, README unchanged, threshold 50: update
\* with score 130.
C16_Witness ==
  /\ ScorerRan
  /\ facts.bio = "page"
  /\ facts.commits = <<"feat">> /\ facts.releases # <<>> /\ facts.readme = ""
  /\ scoring.update_threshold = 50
  /\ significance.change_score = 130
  /\ significance.status = "update"

\* C17 (as claimed): the reason of a scored project is the first factor
\* present in the order release, README change, feat commit, refactor
\* commit, fix commit, wherever the commits stand in the list.
C17_ReasonByPriority ==
  (ScorerRan /\ facts.bio = "page"
     /\ (facts.commits # <<>> \/ facts.releases # <<>>))
    => significance.change_reason =
         IF facts.releases # <<>> THEN "release_tag"
         ELSE IF facts.readme # "" THEN "readme_changed"
         ELSE IF CountOf(facts.commits, "feat") > 0 THEN "feature_commit"
         ELSE IF CountOf(facts.commits, "refactor") > 0 THEN "refactor_commit"
         ELSE IF CountOf(facts.commits, "fix") > 0 THEN "fix_commit"
         ELSE "low_significance"

\* The list of commits without its k-th.
WithoutCommit(commits, k) ==
  [j \in 1..(Len(commits) - 1) |-> IF j < k THEN commits[j] ELSE commits[j + 1]]

\* The score of _calculate_significance for a project with a page.
ScoreOf(commits, releases, readme_changed) ==
  CalculateSignificance(commits, releases, readme_changed, FALSE, scoring).change_score

\* C18: for a project with a page, the score is at least the score of the
\* same input without its release, without its README change, and without
\* any one of its feat, refactor or fix commits, also when what is left has
\* no commits and no releases.
C18_ScoreMonotonic ==
  (ScorerRan /\ facts.bio = "page")
    => LET flag == CheckReadmeChanged(facts.bio, facts.readme)
       IN /\ facts.releases # <<>>
               => significance.change_score >= ScoreOf(facts.commits, <<>>, flag)
          /\ flag
               => significance.change_score
                    >= ScoreOf(facts.commits, facts.releases, FALSE)
          /\ \A k \in 1..Len(facts.commits) :
               facts.commits[k] \in {"feat", "refactor", "fix"}
                 => significance.change_score
                      >= ScoreOf(WithoutCommit(facts.commits, k),
                                 facts.releases, flag)

\* A single fix commit and nothing else: without it the input has no
\* activity.
C18_Witness ==
  /\ ScorerRan
  /\ facts.bio = "page"
  /\ facts.commits = <<"fix">> /\ facts.releases = <<>> /\ facts.readme = ""
  /\ significance.change_score = scoring.fix_commit

\* C19: with the force override on, a project the scorer rated skip is
\* recorded as update with reason force_update; a locked project stays skip
\* with reason locked; a project whose fetch raised stays error; a project
\* rated new or update keeps status and reason.
C19_ForceOverridesOnlySkip ==
  (phase = "collector" /\ project_data # NoEntry /\ force_update)
    => /\ facts.bio = "locked"
            => (project_data.status = "skip"
                /\ project_data.change_reason = "locked")
       /\ (facts.bio # "locked" /\ facts.fetch = "error")
            => project_data.status = "error"
       /\ (ScorerRan /\ significance.status = "skip")
            => (project_data.status = "update"
                /\ project_data.change_reason = "force_update")
       /\ (ScorerRan /\ significance.status \in {"new", "update"})
            => (project_data.status = significance.status
                /\ project_data.change_reason = significance.change_reason)

\* The override on, and a project the scorer rated skip for want of activity.
C19_Witness ==
  /\ ScorerRan
  /\ force_update
  /\ significance.status = "skip"
  /\ significance.change_reason = "no_activity"
  /\ project_data.status = "update"

\* The slugs of a list of drafts, verdicts or choices.
SlugsOf(list) == {list[k].slug : k \in 1..Len(list)}

\* C20 (as claimed): a project for which a fetch failed is recorded with
\* status error and the scorer is not run for it; it is in no list of
\* drafts, verdicts or deployments of the run.
C20_FetchFailureIsError ==
  /\ (phase = "collector" /\ project_data # NoEntry
        /\ facts.fetch \in {"error", "readme_http_error"})
       => (project_data.status = "error" /\ significance = NoSignificance)
  /\ \A slug \in failed :
       /\ context[slug].status = "error"
       /\ slug \notin Range(drafts)
       /\ slug \notin SlugsOf(verdicts)
       /\ slug \notin SlugsOf(choices)

\* The editor's loop has just gone through a draft whose file was there.
ReviewEntered == phase = "editor" /\ review.on_disk

\* What the deployer does with verdict v when its draft is on disk and the
\* freshness check finds the target stale or not.
ChoiceFor(v, stale) ==
  GatekeeperChoice(v, [k \in {v.slug} |-> [generate |-> "ok", review |-> "none",
                                           stale |-> stale]],
                   {v.slug})

\* C21 (as claimed): when the answer of the reviewer is not a structured
\* verdict (not JSON, or JSON that is not an object), the verdict recorded
\* for the draft has status FLAGGED and the deployer takes it to a pull
\* request.
C21_UnparsableIsFlagged ==
  (ReviewEntered /\ review.answer \in {"not_json", "not_object"})
    => /\ outcome.appended >= 1
       /\ verdicts[Len(verdicts)].status = "FLAGGED"
       /\ \A stale \in BOOLEAN :
            ChoiceFor(verdicts[Len(verdicts)], stale) = "pull-request"

\* C22 (as claimed): when the reviewer returned a status and a deterministic
\* check fails for the draft (forbidden word, invalid HTML, missing required
\* section), the final status is FLAGGED or REJECT; invalid HTML gives
\* REJECT.
C22_FailedCheckNeverApproved ==
  (ReviewEntered /\ review.answer \in {"object", "not_json"})
    => /\ (review.forbidden \/ ~review.valid_html \/ review.missing_section)
            => outcome.status \in {"FLAGGED", "REJECT"}
       /\ ~review.valid_html => outcome.status = "REJECT"

\* C27 (as claimed): a pass of the editor's loop that enters the review of a
\* draft appends exactly one entry for it to the verdicts, however the
\* reviewer answered.
C27_OneVerdictPerDraft ==
  ReviewEntered
    => /\ outcome.appended = 1
       /\ Cardinality({k \in 1..Len(verdicts) :
                         verdicts[k].slug = drafts[reviews_done]}) = 1

\* The regions of html that are manual sections of the given name.
PlacesOf(html, name) ==
  {j \in 1..Len(html) : html[j].kind = "manual" /\ html[j].name = name}

\* C23 (as claimed): when the draft has a placeholder for the name of every
\* extracted section, the injection does not fail, and when it is over every
\* extracted section stands at a placeholder of its name with its text
\* unchanged.
C23_InjectionRoundTrip ==
  (\A k \in 1..Len(manual_sections) :
      PlacesOf(original, manual_sections[k].name) # {})
    => /\ ~inject_raised
       /\ injected = Len(manual_sections)
            => \A k \in 1..Len(manual_sections) :
                 \E j \in PlacesOf(original, manual_sections[k].name) :
                    draft_html[j] = manual_sections[k]

\* C24 (as claimed): a pass of the injection loop for a section whose name
\* has no placeholder in the draft leaves the draft as it is and raises
\* nothing.
C24_NoPlaceholderNoChange ==
  [][(injected' = injected + 1
        /\ PlacesOf(draft_html, manual_sections[injected + 1].name) = {})
       => (draft_html' = draft_html /\ ~inject_raised')]_vars

\* C25: the success flag of a run is true exactly when deployer results
\* exist, something was pushed or a pull request opened, and no error was
\* recorded; any error makes it false, and so does an empty run.
C25_SuccessIffDeployedWithoutErrors ==
  (phase = "observer" /\ dashboard.total_runs > 0)
    => /\ run_log.success
            <=> (run_log.results /\ (run_log.pushed > 0 \/ run_log.prs > 0)
                 /\ run_log.errors = 0)
       /\ (run_log.results /\ run_log.errors > 0) => ~run_log.success
       /\ (run_log.pushed = 0 /\ run_log.prs = 0) => ~run_log.success

\* A run with pushes, a pull request and one error: not a success.
C25_Witness ==
  /\ phase = "observer"
  /\ run_log.results
  /\ run_log.pushed > 1 /\ run_log.prs > 0 /\ run_log.errors > 0
  /\ ~run_log.success
  /\ dashboard.failed_runs > 0

\* C28: the dashboard lists at most 20 runs, the most recent ones with the
\* newest first; total_runs is successful_runs plus failed_runs and
\* total_projects_updated is total_prs_created plus total_direct_pushes.
C28_DashboardWindowAndTotals ==
  phase = "observer"
    => /\ Len(dashboard.runs) <= KeepRuns
       /\ Len(dashboard.runs) =
            IF dashboard.total_runs < KeepRuns THEN dashboard.total_runs
            ELSE KeepRuns
       /\ \A k \in 1..Len(dashboard.runs) :
            dashboard.runs[k] = dashboard.total_runs - k + 1
       /\ dashboard.total_runs
            = dashboard.successful_runs + dashboard.failed_runs
       /\ dashboard.total_projects_updated
            = dashboard.total_prs_created + dashboard.total_direct_pushes

\* More runs than the window holds, of both kinds.
C28_Witness ==
  /\ phase = "observer"
  /\ dashboard.total_runs > KeepRuns + 1
  /\ Len(dashboard.runs) = KeepRuns
  /\ dashboard.successful_runs > 0 /\ dashboard.failed_runs > 0
  /\ dashboard.total_prs_created > 0 /\ dashboard.total_direct_pushes > 0

\* C26: once the collector has written the context, no later phase (writer,
\* editor, deployer, observer) changes it.
C26_ContextFrozenAfterCollection ==
  [][phase # "collector" => context' = context]_vars

\* The run is over, the observer included; a stale draft went to a pull
\* request; the context holds an entry for each project.
C26_Witness ==
  /\ phase = "observed"
  /\ Len(context) = NumProjects
  /\ \E k \in 1..Len(choices) :
       /\ responses[choices[k].slug].stale
       /\ choices[k].choice = "pull-request"
  /\ dashboard.total_runs = 1

\* C29 (as claimed): a call that writes the target branch directly, for an
\* artifact the snapshot records as existing, is made only after the
\* freshness check fetched the artifact and saw the content the snapshot
\* records; none is made when the snapshot is missing, when the recorded
\* content is absent, or when the fetch failed otherwise than by not-found.
C29_DirectWriteOnlyAfterEqualFetch ==
  [][((ops' \ ops) \cap TargetWrites # {})
       => \/ project.kind = "no_project"
          \/ project.kind = "entry" /\ ~project.exists
          \/ /\ project.kind = "entry" /\ project.exists
             /\ project.current_html # None
             /\ fetched = "file"
             /\ remoteAtCheck = project.current_html]_vars

\* C30 (as claimed): a project whose published page carries the lock marker
\* when the index is built is recorded as locked with status skip, and in
\* that run it gets no draft, no verdict and neither a direct write nor a
\* pull request, whatever the content fetch of the index answered.
C30_LockedNeverTouched ==
  \A slug \in marked :
    /\ slug <= Len(context)
         => context[slug].locked /\ context[slug].status = "skip"
    /\ phase \in {"editor", "deployer", "done", "observed"}
         => slug \notin Range(drafts) /\ slug \notin disk
    /\ phase \in {"deployer", "done", "observed"}
         => slug \notin SlugsOf(verdicts)
    /\ phase \in {"done", "observed"}
         => \A k \in 1..Len(choices) :
              choices[k].slug = slug
                => choices[k].choice \notin {"direct-write", "pull-request"}
====
